---- MODULE Spec2Model ----
(***************************************************************************)
(* Ghost Protocol as state machines: the session state machine             *)
(* (src/memory_session.py, InMemorySessionService), the resilient invoker  *)
(* (src/retry_handler.py, RateLimiter and with_retry), the runtime mode    *)
(* and the tools (src/config.py, src/load_env.py, src/realtime_tools.py),  *)
(* and the agents (src/agents_realtime.py, src/agents_pseudocode.py) with  *)
(* the endpoints of src/backend/api.py that call them.                     *)
(*                                                                         *)
(* The specifications share the module: SessionSpec, RetrySpec, ToolSpec,  *)
(* DetectSpec, FanoutSpec, PipelineSpec and LoopSpec.  Each leaves the     *)
(* variables of the others untouched.                                      *)
(***************************************************************************)
EXTENDS Integers, Sequences, FiniteSets, TLC

VARIABLES
    \* ---- InMemorySessionService (memory_session.py:48-52) ----
    sessions,       \* self.sessions: session id -> SessionMetadata
    session_data,   \* self.session_data: session id -> dict
    state_history,  \* self.state_history: session id -> list of entries
    aliased,        \* session id -> "session_data[sid] is checkpoint['data_snapshot']"
    clock,          \* the reading of datetime.now()
    persistence_file, \* the text of the file at self.persistence_file, or "absent"
    last,           \* the last call made on the service and how it ended
    \* ---- history variables of the session claims ----
    taken,          \* session id -> what the latest create_checkpoint captured
    ever_cp,        \* session id -> create_checkpoint was called for it
    \* ---- RateLimiter and one with_retry call (retry_handler.py) ----
    rpc,            \* where the wrapper is
    attempt,        \* the loop variable of "for attempt in range(max_retries + 1)"
    now,            \* the reading of time.time()
    start_time,     \* wrapper's start_time
    wake,           \* when the pending asyncio.sleep ends
    requests,       \* _rate_limiter.requests[tool_name]
    results,        \* what the wrapped function did on its 1st, 2nd, ... execution
    calls,          \* executions of the wrapped function started so far
    outcome,        \* how the with_retry call ended
    sleeps,         \* the backoff delays slept so far
    use_jitter,     \* the decorator's use_jitter argument
    \* ---- history variables of the retry claims ----
    func_start,     \* when the execution under way (or the last one) was started
    admitted,       \* the times, still inside the window, at which is_allowed returned True
    unrecorded,     \* the times, still inside the window, at which the wrapped function
                    \* was started without is_allowed having returned True
    \* ---- config.py and load_env.py after import ----
    loaded,         \* config and load_env have been imported
    REALTIME_MODE,  \* config.REALTIME_MODE
    USE_MOCK_DATA_FLAG,      \* config.USE_MOCK_DATA_FLAG
    FORCE_REALTIME_OVERRIDE, \* config.FORCE_REALTIME_OVERRIDE
    USE_REALTIME,   \* config.USE_REALTIME
    key_statuses,   \* the keys k with load_env._load_result.key_statuses[k].is_valid
    current_mode,   \* load_env._current_mode
    \* ---- one tool call (realtime_tools.py) ----
    tpc,            \* where the tool call is: "idle", "live" (awaiting the HTTP client), "done"
    tool,           \* the call: name, whether its parameters select the live service, route
    realtime_seen,  \* what should_use_realtime() returned to the tool
    mode,           \* the tool's local variable mode
    live_calls,     \* invocations of the live handler during the call
    live_outcome,   \* how the live handler ended, "none" if it was not invoked
    tool_result,    \* what the call returned or raised
    \* ---- one RealtimeDeathDetectionAgent.execute (agents_realtime.py) ----
    dpc,            \* where execute is: "idle", the tool it awaits, "done"
    input_data,     \* the dict execute was given
    requested,      \* the caller asked for the manual override
    confidence_threshold, \* self.confidence_threshold
    evidence,       \* the confidences of the list evidence
    is_confirmed,   \* the is_confirmed of the result
    \* ---- one RealtimeDigitalAssetAgent.execute (agents_realtime.py) ----
    apc,            \* where execute is: "idle", "gathering", "returned", "raised"
    task_state,     \* scan -> "none", "scheduled", "running", "done"
    task_result,    \* scan -> what its tool call ended with
    assets,         \* what execute recorded from the results
    asset_count_boost, \* self.asset_count_boost
    \* ---- one GhostOrchestrator.run_pipeline (agents_pseudocode.py) ----
    opc,            \* where run_pipeline is: "idle", the agent it awaits, "returned", "raised"
    orch_state,     \* self.state
    has_session,    \* self.session is not None
    branch,         \* "legacy", "contract" -> how far that branch's execute(...) got
    \* ---- the endpoint execute_will (backend/api.py) ----
    wpc,            \* where the handler is: "idle", "contract_agent", "responded"
    will_request,   \* the request: whether it has a contract_address
    contract_raised, \* deps.contract_agent.execute raised
    response,       \* the WillExecutionResponse
    metrics_success, \* record_contract_execution_success was called with success=True
    legacy_queued,  \* background tasks added and not yet run
    legacy_sent,    \* background tasks that ran
    wills,          \* requests to execute_will so far
    \* ---- one RealtimeLoopAgent (agents_realtime.py) ----
    lpc,            \* where execute is: "not_started", "checking", "sleep_interval",
                    \* "sleep_error", "returned", "raised"
    loop_input,     \* the dict execute was given
    is_running,     \* self.is_running
    checks,         \* registry checks started so far
    last_check,     \* how the latest registry check ended
    death_detected, \* execute returned the death_detected result
    stopped,        \* stop() has been called
    waited          \* hours execute has slept so far

sessionVars == <<sessions, session_data, state_history, aliased, clock, persistence_file, last,
                 taken, ever_cp>>
retryVars == <<rpc, attempt, now, start_time, wake, requests, results, calls, outcome, sleeps,
               use_jitter, func_start, admitted, unrecorded>>
configVars == <<loaded, REALTIME_MODE, USE_MOCK_DATA_FLAG, FORCE_REALTIME_OVERRIDE, USE_REALTIME,
                key_statuses, current_mode>>
callVars == <<tpc, tool, realtime_seen, mode, live_calls, live_outcome, tool_result>>
toolVars == <<configVars, callVars>>
detectVars == <<dpc, input_data, requested, confidence_threshold, evidence, is_confirmed>>
fanVars == <<apc, task_state, task_result, assets, asset_count_boost>>
orchVars == <<opc, orch_state, has_session, branch>>
willVars == <<wpc, will_request, contract_raised, response, metrics_success, legacy_queued,
              legacy_sent, wills>>
pipeVars == <<orchVars, willVars>>
loopVars == <<lpc, loop_input, is_running, checks, last_check, death_detected, stopped,
              waited>>
agentVars == <<detectVars, fanVars, pipeVars, loopVars>>
vars == <<sessionVars, retryVars, toolVars, agentVars>>

(***************************************************************************)
(* Bounds and input domains of the session model                           *)
(***************************************************************************)
MaxClock == 1
MaxHistory == 6

Users == {"u1"}
Keys == {"k1"}
Vals == {"v1", "v2"}
NoAgent == "None"
Agents == {NoAgent, "LoopAgent"}

\* Optional[...] values: None is the empty sequence, a value x is <<x>>.
None == <<>>
Some(x) == <<x>>

(***************************************************************************)
(* SessionState (an Enum): members are addressed by NAME, .value is the    *)
(* lower-case string.                                                      *)
(***************************************************************************)
SessionState ==
    {"CREATED", "MONITORING", "DEATH_DETECTED", "ASSET_SCANNING", "LEGACY_EXECUTING",
     "CONTRACT_EXECUTING", "COMPLETED", "FAILED", "PAUSED"}

\* SessionState.X.value
value(s) ==
    CASE s = "CREATED" -> "created"
      [] s = "MONITORING" -> "monitoring"
      [] s = "DEATH_DETECTED" -> "death_detected"
      [] s = "ASSET_SCANNING" -> "asset_scanning"
      [] s = "LEGACY_EXECUTING" -> "legacy_executing"
      [] s = "CONTRACT_EXECUTING" -> "contract_executing"
      [] s = "COMPLETED" -> "completed"
      [] s = "FAILED" -> "failed"
      [] s = "PAUSED" -> "paused"

\* SessionState[name]: lookup by member name; any other string is a KeyError.
HasMember(name) == name \in SessionState

\* _generate_session_id: sha256 of "user_timestamp", cut to 16 hex digits.  The
\* digest is a function of the pair (user_id, clock reading) and nothing else.
generate_session_id(user_id) == <<user_id, clock>>

AllIds == Users \X (0..MaxClock)

\* valid_transitions of _is_valid_transition
valid_transitions(current) ==
    CASE current = "CREATED" -> {"MONITORING"}
      [] current = "MONITORING" -> {"DEATH_DETECTED", "PAUSED"}
      [] current = "DEATH_DETECTED" -> {"ASSET_SCANNING"}
      [] current = "ASSET_SCANNING" -> {"LEGACY_EXECUTING", "CONTRACT_EXECUTING"}
      [] current = "LEGACY_EXECUTING" -> {"COMPLETED", "FAILED"}
      [] current = "CONTRACT_EXECUTING" -> {"COMPLETED", "FAILED"}
      [] current = "PAUSED" -> {"MONITORING", "ASSET_SCANNING"}
      [] current = "COMPLETED" -> {}
      [] current = "FAILED" -> {}

is_valid_transition(current, target) == target \in valid_transitions(current)

\* d[key] = value on a dict
DictSet(d, key, val) == [k \in (DOMAIN d) \cup {key} |-> IF k = key THEN val ELSE d[k]]
EmptyDict == [k \in {} |-> "v1"]

\* how a call ended: "ok", or the exception it raised
Call(op, sid, arg, result, ret) ==
    [op |-> op, sid |-> sid, arg |-> arg, result |-> result, ret |-> ret]

SessionNotFound == "ValueError: Session not found"
InvalidTransition == "ValueError: Invalid transition"
NoCheckpoint == "ValueError: No checkpoint available"
KeyError == "KeyError"

(***************************************************************************)
(* InMemorySessionService                                                  *)
(***************************************************************************)

\* _save_to_disk: the dict is built, open(file, 'w') creates or truncates the
\* file, and json.dump raises NameError (the module never imports json), which
\* the except clause swallows: the file is left empty.
save_to_disk == persistence_file' = ""

\* _load_from_disk, run by __init__ of a new service on the file: with no file
\* it returns at once; otherwise json.load raises NameError before anything is
\* assigned and the except clause swallows it.  Either way the three dicts of
\* the new service stay empty.
load_from_disk(file) ==
    [sessions |-> [sid \in {} |-> 0],
     session_data |-> [sid \in {} |-> 0],
     state_history |-> [sid \in {} |-> 0]]

\* a dict's .get(key): None when the key is missing
dict_get(d, key) == IF key \in DOMAIN d THEN Some(d[key]) ELSE None

\* Time passes between two calls.  SessionSpec keeps one clock reading (every
\* create_session of a user then yields the same id); the step is here for
\* specifications that need distinct ids.
SessionTick ==
    /\ clock < MaxClock
    /\ clock' = clock + 1
    /\ UNCHANGED <<sessions, session_data, state_history, aliased, persistence_file, last,
                   taken, ever_cp>>
    /\ UNCHANGED <<retryVars, toolVars, agentVars>>

create_session(user_id) ==
    LET session_id == generate_session_id(user_id) IN
    /\ sessions' = (session_id :> [user_id |-> user_id, state |-> "CREATED",
                                   current_agent |-> NoAgent, checkpoint |-> None]) @@ sessions
    /\ session_data' = (session_id :> EmptyDict) @@ session_data
    /\ state_history' = (session_id :> <<[state |-> value("CREATED")]>>) @@ state_history
    /\ aliased' = (session_id :> FALSE) @@ aliased
    /\ taken' = (session_id :> None) @@ taken
    /\ ever_cp' = (session_id :> FALSE) @@ ever_cp
    /\ save_to_disk
    /\ last' = Call("create_session", session_id, user_id, "ok", None)
    /\ UNCHANGED clock
    /\ UNCHANGED <<retryVars, toolVars, agentVars>>

\* The body of update_state, run on behalf of `op` (update_state itself, or
\* pause_session, resume_session, close_session, which all delegate to it).
update_state_body(op, arg, session_id, new_state, agent, checkpoint) ==
    IF session_id \notin DOMAIN sessions
    THEN /\ last' = Call(op, session_id, arg, SessionNotFound, None)
         /\ UNCHANGED <<sessions, session_data, state_history, aliased, clock,
                        persistence_file, taken, ever_cp>>
    ELSE IF ~is_valid_transition(sessions[session_id].state, new_state)
    THEN /\ last' = Call(op, session_id, arg, InvalidTransition, None)
         /\ UNCHANGED <<sessions, session_data, state_history, aliased, clock,
                        persistence_file, taken, ever_cp>>
    ELSE /\ Len(state_history[session_id]) < MaxHistory
         /\ sessions' = [sessions EXCEPT ![session_id].state = new_state,
                                         ![session_id].current_agent = agent,
                                         ![session_id].checkpoint = checkpoint]
         /\ state_history' = [state_history EXCEPT
                                 ![session_id] = Append(@, [state |-> value(new_state)])]
         /\ aliased' = [aliased EXCEPT ![session_id] = @ /\ checkpoint # None]
         /\ taken' = [taken EXCEPT ![session_id] = None]
         /\ save_to_disk
         /\ last' = Call(op, session_id, arg, "ok", None)
         /\ UNCHANGED <<session_data, clock, ever_cp>>

\* update_state(session_id, new_state, agent, checkpoint): the caller passes no
\* checkpoint (the default None), or hands back the one the session holds.
update_state(session_id, new_state, agent, keep) ==
    /\ update_state_body("update_state", new_state, session_id, new_state, agent,
                         IF keep /\ session_id \in DOMAIN sessions
                         THEN sessions[session_id].checkpoint ELSE None)
    /\ UNCHANGED <<retryVars, toolVars, agentVars>>

\* set_data without the membership test of line 108: a missing session gets a
\* data store of its own
set_data_unchecked(session_id, key, val) ==
    /\ session_data' = (session_id :>
                           DictSet(IF session_id \in DOMAIN session_data
                                   THEN session_data[session_id] ELSE EmptyDict, key, val))
                       @@ session_data
    /\ sessions' = IF session_id \in DOMAIN sessions /\ aliased[session_id]
                   THEN [sessions EXCEPT ![session_id].checkpoint =
                           Some([@[1] EXCEPT !.data_snapshot = DictSet(@, key, val)])]
                   ELSE sessions
    /\ save_to_disk
    /\ last' = Call("set_data", session_id, key, "ok", None)
    /\ UNCHANGED <<state_history, aliased, clock, taken, ever_cp>>
    /\ UNCHANGED <<retryVars, toolVars, agentVars>>

set_data(session_id, key, val) ==
    /\ IF session_id \notin DOMAIN session_data
       THEN /\ last' = Call("set_data", session_id, key, SessionNotFound, None)
            /\ UNCHANGED <<sessions, session_data, persistence_file>>
       ELSE /\ session_data' = [session_data EXCEPT ![session_id] = DictSet(@, key, val)]
            \* the dict written to is also the checkpoint's snapshot when the two
            \* are one object
            /\ sessions' = IF aliased[session_id]
                           THEN [sessions EXCEPT ![session_id].checkpoint =
                                   Some([@[1] EXCEPT !.data_snapshot = DictSet(@, key, val)])]
                           ELSE sessions
            /\ save_to_disk
            /\ last' = Call("set_data", session_id, key, "ok", None)
    /\ UNCHANGED <<state_history, aliased, clock, taken, ever_cp>>
    /\ UNCHANGED <<retryVars, toolVars, agentVars>>

get_data(session_id, key) ==
    /\ last' = Call("get_data", session_id, key, "ok",
                    dict_get(IF session_id \in DOMAIN session_data
                             THEN session_data[session_id] ELSE EmptyDict, key))
    /\ UNCHANGED <<sessions, session_data, state_history, aliased, clock, persistence_file,
                   taken, ever_cp>>
    /\ UNCHANGED <<retryVars, toolVars, agentVars>>

pause_session(session_id) ==
    /\ update_state_body("pause_session", "", session_id, "PAUSED", NoAgent, None)
    /\ UNCHANGED <<retryVars, toolVars, agentVars>>

resume_session(session_id) ==
    /\ IF /\ session_id \in DOMAIN sessions
          /\ sessions[session_id].checkpoint # None
          /\ dict_get(sessions[session_id].checkpoint[1], "previous_state") # None
       THEN LET previous_state == sessions[session_id].checkpoint[1]["previous_state"] IN
            IF HasMember(previous_state)
            THEN update_state_body("resume_session", "", session_id, previous_state,
                                   NoAgent, None)
            ELSE /\ last' = Call("resume_session", session_id, "", KeyError, None)
                 /\ UNCHANGED <<sessions, session_data, state_history, aliased, clock,
                                persistence_file, taken, ever_cp>>
       ELSE /\ last' = Call("resume_session", session_id, "", "ok", None)
            /\ UNCHANGED <<sessions, session_data, state_history, aliased, clock,
                           persistence_file, taken, ever_cp>>
    /\ UNCHANGED <<retryVars, toolVars, agentVars>>

close_session(session_id, success) ==
    /\ update_state_body("close_session", IF success THEN "True" ELSE "False", session_id,
                         IF success THEN "COMPLETED" ELSE "FAILED", NoAgent, None)
    /\ UNCHANGED <<retryVars, toolVars, agentVars>>

create_checkpoint(session_id) ==
    /\ IF session_id \notin DOMAIN sessions
       THEN /\ last' = Call("create_checkpoint", session_id, "", SessionNotFound, None)
            /\ UNCHANGED <<sessions, aliased, taken, ever_cp>>
       ELSE LET checkpoint == [state |-> value(sessions[session_id].state),
                               agent |-> sessions[session_id].current_agent,
                               data_snapshot |-> session_data[session_id]] IN
            /\ sessions' = [sessions EXCEPT ![session_id].checkpoint = Some(checkpoint)]
            \* .copy() makes the snapshot a new dict
            /\ aliased' = [aliased EXCEPT ![session_id] = FALSE]
            /\ taken' = [taken EXCEPT ![session_id] =
                            Some([state |-> sessions[session_id].state,
                                  agent |-> sessions[session_id].current_agent,
                                  data |-> session_data[session_id],
                                  rolled |-> FALSE])]
            /\ ever_cp' = [ever_cp EXCEPT ![session_id] = TRUE]
            /\ last' = Call("create_checkpoint", session_id, "", "ok", None)
    /\ UNCHANGED <<session_data, state_history, clock, persistence_file>>
    /\ UNCHANGED <<retryVars, toolVars, agentVars>>

\* rollback_to_checkpoint with the snapshot's state looked up by value: the
\* state and agent of the checkpoint are put back with no transition check
rollback_by_value(session_id) ==
    /\ IF \/ session_id \notin DOMAIN sessions
          \/ sessions[session_id].checkpoint = None
       THEN /\ last' = Call("rollback_to_checkpoint", session_id, "", NoCheckpoint, None)
            /\ UNCHANGED <<sessions, session_data, aliased, taken>>
       ELSE LET checkpoint == sessions[session_id].checkpoint[1] IN
            /\ session_data' = [session_data EXCEPT ![session_id] = checkpoint.data_snapshot]
            /\ aliased' = [aliased EXCEPT ![session_id] = TRUE]
            /\ taken' = [taken EXCEPT ![session_id] =
                            IF @ = None THEN None ELSE Some([@[1] EXCEPT !.rolled = TRUE])]
            /\ sessions' = [sessions EXCEPT
                               ![session_id].state =
                                   CHOOSE m \in SessionState : value(m) = checkpoint.state,
                               ![session_id].current_agent = checkpoint.agent]
            /\ last' = Call("rollback_to_checkpoint", session_id, "", "ok", None)
    /\ UNCHANGED <<state_history, clock, persistence_file, ever_cp>>
    /\ UNCHANGED <<retryVars, toolVars, agentVars>>

rollback_to_checkpoint(session_id) ==
    /\ IF \/ session_id \notin DOMAIN sessions
          \/ sessions[session_id].checkpoint = None
       THEN /\ last' = Call("rollback_to_checkpoint", session_id, "", NoCheckpoint, None)
            /\ UNCHANGED <<sessions, session_data, aliased, taken>>
       ELSE LET checkpoint == sessions[session_id].checkpoint[1] IN
            \* line 217: the data store becomes the snapshot object itself
            /\ session_data' = [session_data EXCEPT ![session_id] = checkpoint.data_snapshot]
            /\ aliased' = [aliased EXCEPT ![session_id] = TRUE]
            /\ taken' = [taken EXCEPT ![session_id] =
                            IF @ = None THEN None ELSE Some([@[1] EXCEPT !.rolled = TRUE])]
            \* line 218: SessionState[checkpoint["state"]] looks the stored .value up
            \* as a member name
            /\ IF HasMember(checkpoint.state)
               THEN /\ sessions' = [sessions EXCEPT
                                       ![session_id].state = checkpoint.state,
                                       ![session_id].current_agent = checkpoint.agent]
                    /\ last' = Call("rollback_to_checkpoint", session_id, "", "ok", None)
               ELSE /\ last' = Call("rollback_to_checkpoint", session_id, "", KeyError, None)
                    /\ UNCHANGED sessions
    /\ UNCHANGED <<state_history, clock, persistence_file, ever_cp>>
    /\ UNCHANGED <<retryVars, toolVars, agentVars>>

SessionNext ==
    \/ \E u \in Users : create_session(u)
    \/ \E sid \in AllIds, s \in SessionState, a \in Agents, keep \in BOOLEAN :
          update_state(sid, s, a, keep)
    \/ \E sid \in AllIds, k \in Keys, v \in Vals : set_data(sid, k, v)
    \/ \E sid \in AllIds, k \in Keys : get_data(sid, k)
    \/ \E sid \in AllIds : pause_session(sid)
    \/ \E sid \in AllIds : resume_session(sid)
    \/ \E sid \in AllIds, success \in BOOLEAN : close_session(sid, success)
    \/ \E sid \in AllIds : create_checkpoint(sid)
    \/ \E sid \in AllIds : rollback_to_checkpoint(sid)


(***************************************************************************)
(* retry_handler.py: RateLimiter and with_retry                            *)
(*                                                                         *)
(* Time is counted in ticks.  The decorator's arguments and the limiter's  *)
(* constructor arguments are the definitions below.                        *)
(***************************************************************************)
MaxRetries == 2        \* max_retries
BaseDelay == 1         \* base_delay
Timeout == 4           \* timeout
MaxRequests == 2       \* RateLimiter.max_requests
WindowSeconds == 3     \* RateLimiter.window_seconds
MaxTime == 7           \* the model stops the clock here

\* What one execution of the wrapped function does: it returns, or raises one of
\* the error classes of retry_handler.py (HTTPError carries its status code).
\* "Exception(401)" is an exception of a class foreign to retry_handler.py whose
\* message carries a 401 (an HTTP client's status error).
Errors == {"NetworkError", "HTTPError(500)", "HTTPError(404)", "RateLimitError",
           "InvalidKeyError", "TimeoutError", "Exception(401)"}
Outcomes == {"ok"} \cup Errors

\* the TimeoutError the wrapper itself raises (line 169)
WrapperTimeout == "TimeoutError: Operation timed out"

SeqMin(q) == CHOOSE x \in {q[i] : i \in 1..Len(q)} : \A j \in 1..Len(q) : x <= q[j]
Max0(x) == IF x > 0 THEN x ELSE 0

\* RateLimiter.is_allowed, lines 97-100: the requests still inside the window
Prune(reqs, t) == SelectSeq(reqs, LAMBDA req_time : t - req_time < WindowSeconds)

\* a request is let through when the window is exactly full
is_allowed_at_capacity(reqs, t) == Len(Prune(reqs, t)) <= MaxRequests

\* RateLimiter.is_allowed: its return value ...
is_allowed(reqs, t) == Len(Prune(reqs, t)) < MaxRequests

\* the admitted request replaces the list instead of being appended to it
is_allowed_overwrites(reqs, t) == IF is_allowed(reqs, t) THEN <<t>> ELSE Prune(reqs, t)

\* ... and self.requests[tool_name] after the call
is_allowed_requests(reqs, t) ==
    IF is_allowed(reqs, t) THEN Append(Prune(reqs, t), t) ELSE Prune(reqs, t)

\* RateLimiter.wait_time
wait_time(reqs, t) ==
    IF reqs = <<>> THEN 0 ELSE Max0((SeqMin(reqs) + WindowSeconds) - t)

RECURSIVE Pow2(_)
Pow2(n) == IF n = 0 THEN 1 ELSE 2 * Pow2(n - 1)

\* the delay does not grow with the attempt
ConstantBackoff(a, base_delay, jitter) == {base_delay}

\* calculate_backoff_delay: the delays it can return.  With jitter the factor is
\* uniform in [0.75, 1.25]; on the tick grid that is every tick from
\* ceil(0.75 * delay) to floor(1.25 * delay).
calculate_backoff_delay(a, base_delay, jitter) ==
    LET delay == base_delay * Pow2(a) IN
    IF jitter
    THEN {d \in 0..(2 * delay) : 4 * d >= 3 * delay /\ 4 * d <= 5 * delay}
    ELSE {delay}

\* classify_error: the category of an error.  The custom classes are matched by
\* isinstance; a foreign exception is classified by its message.
classify_error(e) ==
    CASE e = "NetworkError" -> "NetworkError"
      [] e = "HTTPError(500)" -> "HTTPError(500)"
      [] e = "HTTPError(404)" -> "HTTPError(404)"
      [] e = "RateLimitError" -> "RateLimitError"
      [] e = "InvalidKeyError" -> "InvalidKeyError"
      [] e = "TimeoutError" -> "TimeoutError"
      [] e = "Exception(401)" -> "InvalidKeyError"

\* no error class is exempt from retrying
NothingNonRetryable(e) == FALSE

\* line 266: isinstance(e, (InvalidKeyError,))
IsNonRetryable(e) == e = "InvalidKeyError"

\* the elapsed time is never looked at
TimeoutIgnored(t, started) == FALSE

\* line 168: time.time() - start_time > timeout
TimedOut(t, started) == t - started > Timeout

\* the loop gives up one attempt early
LastAttemptOffByOne(a) == a = MaxRetries - 1

\* line 295: attempt == max_retries
IsLastAttempt(a) == a = MaxRetries

\* The entries of a history list that are younger than the limiter's window at t
Unexpired(times, t) == SelectSeq(times, LAMBDA x : t - x < WindowSeconds)

\* The wrapper is suspended (or not yet called): the event loop runs other tasks
\* and time passes.
Suspended == rpc \in {"idle", "rl_sleep", "in_func", "backoff"}

RetryTick ==
    /\ Suspended
    /\ now < MaxTime
    /\ now' = now + 1
    /\ UNCHANGED <<rpc, attempt, start_time, wake, requests, results, calls, outcome, sleeps,
                   use_jitter, func_start, admitted, unrecorded>>
    /\ UNCHANGED <<sessionVars, toolVars, agentVars>>

\* Another call for the same tool name (a second wrapper, a RateLimitContext)
\* runs is_allowed on the process-wide limiter while this one is suspended.
OtherAdmit ==
    /\ Suspended
    /\ requests' = is_allowed_requests(requests, now)
    /\ requests' # requests
    /\ admitted' = IF is_allowed(requests, now) THEN Append(Unexpired(admitted, now), now)
                   ELSE admitted
    /\ UNCHANGED <<rpc, attempt, now, start_time, wake, results, calls, outcome, sleeps,
                   use_jitter, func_start, unrecorded>>
    /\ UNCHANGED <<sessionVars, toolVars, agentVars>>

\* wrapper(*args, **kwargs) is called: lines 158-160
RetryStart ==
    /\ rpc = "idle"
    /\ rpc' = "loop"
    /\ start_time' = now
    /\ attempt' = 0
    /\ use_jitter' \in BOOLEAN
    /\ UNCHANGED <<now, wake, requests, results, calls, outcome, sleeps, func_start, admitted,
                   unrecorded>>
    /\ UNCHANGED <<sessionVars, toolVars, agentVars>>

\* The head of one loop iteration, lines 166-210, up to the first await: the
\* timeout check, the rate-limit check, then either the sleep of line 206 or the
\* call of the wrapped function.
AttemptHead ==
    /\ rpc = "loop"
    /\ IF TimedOut(now, start_time)
       THEN /\ rpc' = "raised"
            /\ outcome' = WrapperTimeout
            /\ UNCHANGED <<requests, wake, calls, func_start, admitted>>
       ELSE /\ requests' = is_allowed_requests(requests, now)
            /\ IF is_allowed(requests, now)
               THEN /\ rpc' = "in_func"
                    /\ calls' = calls + 1
                    /\ func_start' = now
                    /\ admitted' = Append(Unexpired(admitted, now), now)
                    /\ UNCHANGED wake
               ELSE /\ rpc' = "rl_sleep"
                    /\ wake' = now + wait_time(requests', now)
                    /\ UNCHANGED <<calls, func_start, admitted>>
            /\ UNCHANGED outcome
    /\ UNCHANGED <<attempt, now, start_time, results, sleeps, use_jitter, unrecorded>>
    /\ UNCHANGED <<sessionVars, toolVars, agentVars>>

\* asyncio.sleep(wait) of line 206 is over: the wrapped function is called
\* (line 210) with no second look at the limiter.
RateLimitWake ==
    /\ rpc = "rl_sleep"
    /\ now >= wake
    /\ rpc' = "in_func"
    /\ calls' = calls + 1
    /\ func_start' = now
    /\ unrecorded' = Append(Unexpired(unrecorded, now), now)
    /\ UNCHANGED <<attempt, now, start_time, wake, requests, results, outcome, sleeps,
                   use_jitter, admitted>>
    /\ UNCHANGED <<sessionVars, toolVars, agentVars>>

\* The wrapped function finishes with r: lines 210-358.
FuncDone(r) ==
    /\ rpc = "in_func"
    /\ results' = Append(results, r)
    /\ IF r = "ok"
       THEN /\ rpc' = "returned"
            /\ outcome' = "ok"
            /\ UNCHANGED <<wake, sleeps>>
       ELSE IF IsNonRetryable(r) \/ IsLastAttempt(attempt)
       THEN /\ rpc' = "raised"
            /\ outcome' = r
            /\ UNCHANGED <<wake, sleeps>>
       ELSE \E delay \in calculate_backoff_delay(attempt, BaseDelay, use_jitter) :
            /\ rpc' = "backoff"
            /\ sleeps' = Append(sleeps, delay)
            /\ wake' = now + delay
            /\ UNCHANGED outcome
    /\ UNCHANGED <<attempt, now, start_time, requests, calls, use_jitter, func_start, admitted,
                   unrecorded>>
    /\ UNCHANGED <<sessionVars, toolVars, agentVars>>

\* asyncio.sleep(delay) of line 358 is over: the next iteration of the for loop
BackoffWake ==
    /\ rpc = "backoff"
    /\ now >= wake
    /\ IF attempt + 1 <= MaxRetries
       THEN /\ rpc' = "loop"
            /\ attempt' = attempt + 1
            /\ UNCHANGED outcome
       ELSE \* range(max_retries + 1) is used up: line 361, raise last_exception
            /\ rpc' = "raised"
            /\ outcome' = results[Len(results)]
            /\ UNCHANGED attempt
    /\ UNCHANGED <<now, start_time, wake, requests, results, calls, sleeps, use_jitter,
                   func_start, admitted, unrecorded>>
    /\ UNCHANGED <<sessionVars, toolVars, agentVars>>

RetryNext ==
    \/ RetryTick
    \/ OtherAdmit
    \/ RetryStart
    \/ AttemptHead
    \/ RateLimitWake
    \/ \E r \in Outcomes : FuncDone(r)
    \/ BackoffWake

(***************************************************************************)
(* config.py, load_env.py and realtime_tools.py: the runtime mode and the  *)
(* tools of RealtimeToolRegistry                                           *)
(***************************************************************************)

\* What an environment variable can hold ("unset": os.getenv returns its default)
EnvValues == {"unset", "true", "True", "false"}

\* str.lower() on those values
Lower(v) == IF v = "True" THEN "true" ELSE v

\* os.getenv(NAME, "False").lower() == "true"
EnvFlag(v) == Lower(IF v = "unset" THEN "False" ELSE v) = "true"

\* the override is not looked at: mock unless REALTIME_MODE
MockUnlessRealtime(realtime, mock_flag, force) == ~realtime

\* config.py lines 37-42: FINAL_MOCK_MODE
FINAL_MOCK_MODE(realtime, mock_flag, force) ==
    IF force THEN FALSE
    ELSE IF realtime /\ ~mock_flag THEN FALSE
    ELSE TRUE

\* config.should_use_realtime()
should_use_realtime == USE_REALTIME

\* config.CRITICAL_API_KEYS, and the keys of config.OPTIONAL_API_KEYS that a tool asks for
CRITICAL_API_KEYS == {"GEMINI_API_KEY"}
OPTIONAL_API_KEYS == {"NEWS_API_KEY", "ETHERSCAN_API_KEY", "DROPBOX_ACCESS_TOKEN"}

\* load_env.is_key_available: a name outside the two lists has no status
is_key_available(key_name) == key_name \in key_statuses

\* load_env.check_and_switch_mode, given the flags of config and critical_missing
check_and_switch_mode(force, use_realtime, critical_missing) ==
    IF force THEN "REALTIME"
    ELSE IF ~use_realtime THEN "MOCK"
    ELSE IF critical_missing # {} THEN "MOCK"
    ELSE "REALTIME"

\* RealtimeToolRegistry._register_all_tools: name -> type
McpTools == {"get_recent_obituaries", "fetch_blockchain_balance", "get_recent_emails",
             "get_cloud_activity"}
OpenapiTools == {"verify_death_certificate", "get_crypto_prices", "get_gas_prices"}
BuiltinTools == {"google_search"}
Registered == McpTools \cup OpenapiTools \cup BuiltinTools

\* the names a caller may pass to execute_tool
ToolNames == Registered \cup {"not_a_tool"}

\* the registered instances whose class defines execute(params): the last
\* definition of CryptoPriceFeedAPI in the file has none
HasExecute(name) == name \in McpTools \cup {"verify_death_certificate"}

\* the keys a tool's live path asks is_key_available for
RequiredKeys(name) ==
    CASE name = "get_recent_obituaries" -> {"NEWS_API_KEY"}
      [] name = "fetch_blockchain_balance" -> {"ETHERSCAN_API_KEY"}
      [] name = "get_recent_emails" -> {"IMAP_EMAIL", "IMAP_PASSWORD"}
      [] name = "get_cloud_activity" -> {"DROPBOX_ACCESS_TOKEN"}
      [] name = "verify_death_certificate" -> {"DEATH_REGISTRY_API_KEY"}
      [] name = "get_crypto_prices" -> {}
      [] name = "get_gas_prices" -> {"ETHERSCAN_API_KEY"}

\* the tools whose live path also depends on the parameters ("ETH" in chains,
\* "dropbox" in services, chain == "ethereum")
ParamGated == {"fetch_blockchain_balance", "get_cloud_activity", "get_gas_prices"}

\* the condition of the "REALTIME PATH" if-statement of a tool
LiveCondition(name, selects) ==
    /\ should_use_realtime
    /\ name \in ParamGated => selects
    /\ \A k \in RequiredKeys(name) : is_key_available(k)

\* How the HTTP request of a live path ends: a response with a status code, or
\* an exception of the client
LiveExceptions == {"NetworkError", "TimeoutError"}
LiveOutcomes == {"http200", "http429", "http500"} \cup LiveExceptions

NoCall == [name |-> "", selects |-> FALSE, via |-> ""]
NoResult == [kind |-> "none", mode |-> "", data |-> "", error |-> ""]
Returned(m, d) == [kind |-> "returned", mode |-> m, data |-> d, error |-> ""]
Raised(e) == [kind |-> "raised", mode |-> "", data |-> "", error |-> e]

\* import config; import load_env: the flags are read from the environment,
\* load_environment() validates the keys and check_and_switch_mode sets
\* _current_mode
LoadEnvironment ==
    /\ ~loaded
    /\ \E rm \in EnvValues, um \in EnvValues, fo \in EnvValues,
          valid \in SUBSET (CRITICAL_API_KEYS \cup OPTIONAL_API_KEYS) :
          /\ REALTIME_MODE' = EnvFlag(rm)
          /\ USE_MOCK_DATA_FLAG' = EnvFlag(um)
          /\ FORCE_REALTIME_OVERRIDE' = EnvFlag(fo)
          /\ USE_REALTIME' = (FINAL_MOCK_MODE(EnvFlag(rm), EnvFlag(um), EnvFlag(fo)) = FALSE)
          /\ key_statuses' = valid
          /\ current_mode' = check_and_switch_mode(FORCE_REALTIME_OVERRIDE', USE_REALTIME',
                                                   CRITICAL_API_KEYS \ valid)
    /\ loaded' = TRUE
    /\ UNCHANGED callVars
    /\ UNCHANGED <<sessionVars, retryVars, agentVars>>

\* The body of a tool (execute, get_crypto_prices, get_gas_prices) up to its
\* first await: the mode local, then the live path's request or the mock path.
ToolBody(name, selects) ==
    /\ realtime_seen' = should_use_realtime
    /\ live_outcome' = "none"
    /\ IF LiveCondition(name, selects)
       THEN /\ tpc' = "live"
            /\ mode' = "REALTIME"
            /\ live_calls' = 1
            /\ tool_result' = NoResult
       ELSE /\ tpc' = "done"
            /\ mode' = IF should_use_realtime THEN "REALTIME" ELSE "MOCK"
            /\ live_calls' = 0
            /\ tool_result' = Returned(mode', "synthetic")

\* RealtimeToolRegistry.execute_tool(name, params)
execute_tool(name, selects) ==
    /\ loaded
    /\ tpc \in {"idle", "done"}
    /\ tool' = [name |-> name, selects |-> selects, via |-> "registry"]
    /\ IF name \notin Registered
       THEN /\ tool_result' = Raised("ValueError")
            /\ tpc' = "done"
            /\ live_calls' = 0
            /\ live_outcome' = "none"
            /\ UNCHANGED <<realtime_seen, mode>>
       ELSE IF name \in BuiltinTools
       THEN /\ tool_result' = Returned("", "error")
            /\ tpc' = "done"
            /\ live_calls' = 0
            /\ live_outcome' = "none"
            /\ UNCHANGED <<realtime_seen, mode>>
       ELSE IF ~HasExecute(name)
       THEN \* instance.execute: no such attribute
            /\ tool_result' = Raised("AttributeError")
            /\ tpc' = "done"
            /\ live_calls' = 0
            /\ live_outcome' = "none"
            /\ UNCHANGED <<realtime_seen, mode>>
       ELSE ToolBody(name, selects)
    /\ UNCHANGED configVars
    /\ UNCHANGED <<sessionVars, retryVars, agentVars>>

\* CryptoPriceFeedAPI().get_crypto_prices(symbols) or .get_gas_prices(chain),
\* called on the instance
call_method(name, selects) ==
    /\ loaded
    /\ tpc \in {"idle", "done"}
    /\ name \in {"get_crypto_prices", "get_gas_prices"}
    /\ tool' = [name |-> name, selects |-> selects, via |-> "method"]
    /\ ToolBody(name, selects)
    /\ UNCHANGED configVars
    /\ UNCHANGED <<sessionVars, retryVars, agentVars>>

\* The request of the live path is over.  A 200 response is turned into the
\* result; any other response leaves the if-statement without a return and
\* without an exception; an exception is caught and sets mode.  Then the mock
\* path runs unless the live path returned.
LiveResponds(o) ==
    /\ tpc = "live"
    /\ tpc' = "done"
    /\ live_outcome' = o
    /\ IF o = "http200"
       THEN /\ tool_result' = Returned("REALTIME", "live")
            /\ UNCHANGED mode
       ELSE /\ mode' = IF o \in LiveExceptions THEN "MOCK_FALLBACK" ELSE mode
            /\ tool_result' = Returned(mode', "synthetic")
    /\ UNCHANGED <<tool, realtime_seen, live_calls>>
    /\ UNCHANGED configVars
    /\ UNCHANGED <<sessionVars, retryVars, agentVars>>

ToolNext ==
    \/ LoadEnvironment
    \/ \E name \in ToolNames, selects \in BOOLEAN : execute_tool(name, selects)
    \/ \E name \in {"get_crypto_prices", "get_gas_prices"}, selects \in BOOLEAN :
          call_method(name, selects)
    \/ \E o \in LiveOutcomes : LiveResponds(o)

(***************************************************************************)
(* agents_realtime.py: RealtimeDeathDetectionAgent, and the endpoint       *)
(* detect_death of backend/api.py that calls it                            *)
(*                                                                         *)
(* A confidence is a whole number of hundredths (0.87 is 87), so that the  *)
(* mean of the evidence is compared with the threshold exactly.            *)
(***************************************************************************)
REALTIME_CONFIDENCE_THRESHOLD == 85
MOCK_CONFIDENCE_THRESHOLD == 60

\* The confidence of the one result of the simulated web search.
SearchConfidence == 87

\* What get_recent_obituaries can answer: the confidences of the obituaries found, or an
\* exception.
MaxObituaries == 2
ObituaryConfidences == {76, 96}
ObituaryResults ==
    {[raised |-> TRUE, obituaries |-> <<>>]} \cup
    {[raised |-> FALSE, obituaries |-> c] :
        c \in UNION {[1..n -> ObituaryConfidences] : n \in 0..MaxObituaries}}

\* What verify_death_certificate can answer: an exception, or "verified" and "confidence".
RegistryConfidences == {70, 92}
RegistryResults ==
    {[raised |-> TRUE, verified |-> FALSE, confidence |-> 0]} \cup
    {[raised |-> FALSE, verified |-> v, confidence |-> c] :
        v \in BOOLEAN, c \in RegistryConfidences}

\* What get_recent_emails can answer: an exception, or condolence_email_count.
CondolenceCounts == {0, 6, 9}
EmailResults ==
    {[raised |-> TRUE, condolence_email_count |-> 0]} \cup
    {[raised |-> FALSE, condolence_email_count |-> c] : c \in CondolenceCounts}

Min(a, b) == IF a <= b THEN a ELSE b

\* min(0.85, 0.5 + (condolence_count * 0.05))
CondolenceConfidence(condolence_count) == Min(85, 50 + condolence_count * 5)

RECURSIVE Sum(_)
Sum(s) == IF s = <<>> THEN 0 ELSE Head(s) + Sum(Tail(s))

\* The dict handed to execute: whether it has "full_name", and what
\* input_data.get("manual_trigger", False) gives.
DeathInputs == [full_name : BOOLEAN, manual_trigger : BOOLEAN]

\* "if evidence: ... is_confirmed = manual_trigger or (avg_confidence >= threshold)
\*  else: ... is_confirmed = False"
Confirm(ev, manual_trigger, threshold) ==
    IF ev # <<>>
    THEN manual_trigger \/ (Sum(ev) >= threshold * Len(ev))
    ELSE FALSE

\* RealtimeDeathDetectionAgent.__init__ and execute up to its first await.
death_execute_body(input, realtime, asked) ==
    /\ dpc = "idle"
    /\ dpc' = "obituary"
    /\ input_data' = input
    /\ requested' = asked
    /\ confidence_threshold' =
          IF realtime THEN REALTIME_CONFIDENCE_THRESHOLD ELSE MOCK_CONFIDENCE_THRESHOLD
    /\ evidence' = <<>>
    /\ UNCHANGED is_confirmed

\* A caller invokes the agent directly with its own dict.
death_execute(input, realtime) ==
    /\ death_execute_body(input, realtime, input.manual_trigger)
    /\ UNCHANGED <<sessionVars, retryVars, toolVars, fanVars, pipeVars, loopVars>>

\* POST /api/v1/detect_death: the payload has full_name (the user id) and no
\* "manual_trigger"; request.manual_trigger is only logged.
detect_death(request_manual_trigger, realtime) ==
    /\ death_execute_body([full_name |-> TRUE, manual_trigger |-> FALSE], realtime,
                          request_manual_trigger)
    /\ UNCHANGED <<sessionVars, retryVars, toolVars, fanVars, pipeVars, loopVars>>

\* Step 1: get_recent_obituaries answers; input_data["full_name"] raises KeyError inside the
\* try when the name is absent.
ObituaryLookup(r) ==
    /\ dpc = "obituary"
    /\ dpc' = "registry"
    \* step 2 (the simulated search) runs with no await in between
    /\ evidence' =
          IF ~input_data.full_name
          THEN evidence
          ELSE (IF r.raised THEN evidence ELSE evidence \o r.obituaries)
                  \o <<SearchConfidence>>
    /\ UNCHANGED <<input_data, requested, confidence_threshold, is_confirmed>>
    /\ UNCHANGED <<sessionVars, retryVars, toolVars, fanVars, pipeVars, loopVars>>

\* Step 3: verify_death_certificate answers.
RegistryCheck(r) ==
    /\ dpc = "registry"
    /\ dpc' = "email"
    /\ evidence' =
          IF input_data.full_name /\ ~r.raised /\ r.verified
          THEN Append(evidence, r.confidence)
          ELSE evidence
    /\ UNCHANGED <<input_data, requested, confidence_threshold, is_confirmed>>
    /\ UNCHANGED <<sessionVars, retryVars, toolVars, fanVars, pipeVars, loopVars>>

\* Step 4: get_recent_emails answers, and execute runs to its return.
EmailAnalysis(r) ==
    /\ dpc = "email"
    /\ dpc' = "done"
    /\ LET ev == IF ~r.raised /\ r.condolence_email_count > 5
                 THEN Append(evidence, CondolenceConfidence(r.condolence_email_count))
                 ELSE evidence
       IN  /\ evidence' = ev
           /\ is_confirmed' = Confirm(ev, input_data.manual_trigger, confidence_threshold)
    /\ UNCHANGED <<input_data, requested, confidence_threshold>>
    /\ UNCHANGED <<sessionVars, retryVars, toolVars, fanVars, pipeVars, loopVars>>

\* The result has been returned; the agent can be invoked again.
DetectReturn ==
    /\ dpc = "done"
    /\ dpc' = "idle"
    /\ UNCHANGED <<input_data, requested, confidence_threshold, evidence, is_confirmed>>
    /\ UNCHANGED <<sessionVars, retryVars, toolVars, fanVars, pipeVars, loopVars>>

DetectNext ==
    \/ \E input \in DeathInputs, realtime \in BOOLEAN : death_execute(input, realtime)
    \/ \E asked \in BOOLEAN, realtime \in BOOLEAN : detect_death(asked, realtime)
    \/ \E r \in ObituaryResults : ObituaryLookup(r)
    \/ \E r \in RegistryResults : RegistryCheck(r)
    \/ \E r \in EmailResults : EmailAnalysis(r)
    \/ DetectReturn

(***************************************************************************)
(* agents_realtime.py: RealtimeDigitalAssetAgent.execute, the fan-out of   *)
(* the three asset scans through asyncio.gather                            *)
(***************************************************************************)
MOCK_ASSET_COUNT_BOOST == 5

\* task_blockchain, task_email, task_cloud, in the order they are handed to gather.
Scans == <<"blockchain", "email", "cloud">>
ScanNames == {Scans[i] : i \in 1..Len(Scans)}

\* What a scan's execute_tool can end with: an exception, or a dict whose list ("balances",
\* "activity") has this many elements.
MaxItems == 2
NoAnswer == [raised |-> FALSE, items |-> 0]
ScanAnswers ==
    {[raised |-> TRUE, items |-> 0]} \cup {[raised |-> FALSE, items |-> n] : n \in 0..MaxItems}

\* The dict handed to execute: whether it has "user_id", and its "wallet_addresses".
AssetInputs == [user_id : BOOLEAN, wallet_addresses : {"absent", "empty", "one"}]

NoAssets == [crypto_wallets |-> 0, email_accounts |-> 0, cloud_storage |-> 0,
             failed |-> {}, total_assets |-> 0]

\* A gather that gives up at the first exception (return_exceptions=False).
gather_until_exception(ts, tr) ==
    \/ \A t \in ScanNames : ts[t] = "done"
    \/ \E t \in ScanNames : ts[t] = "done" /\ tr[t].raised

\* asyncio.gather(..., return_exceptions=True) resumes its awaiter when every awaitable is
\* done, whether it returned or raised.
gather_resumes(ts, tr) == \A t \in ScanNames : ts[t] = "done"

\* RealtimeDigitalAssetAgent.__init__ and execute up to "await asyncio.gather(...)":
\* input_data["user_id"] and input_data.get("wallet_addresses", [""])[0] are evaluated
\* before any coroutine exists.
asset_execute(input, realtime) ==
    /\ apc = "idle"
    /\ asset_count_boost' = IF realtime THEN 0 ELSE MOCK_ASSET_COUNT_BOOST
    /\ assets' = NoAssets
    /\ task_result' = [t \in ScanNames |-> NoAnswer]
    /\ IF ~input.user_id \/ input.wallet_addresses = "empty"
       THEN /\ apc' = "raised"
            /\ task_state' = [t \in ScanNames |-> "none"]
       ELSE /\ apc' = "gathering"
            /\ task_state' = [t \in ScanNames |-> "scheduled"]
    /\ UNCHANGED <<sessionVars, retryVars, toolVars, detectVars, pipeVars, loopVars>>

\* The event loop runs a scheduled task for the first time, in the order of scheduling: the
\* tool call runs to its first suspension.
TaskStart(i) ==
    /\ task_state[Scans[i]] = "scheduled"
    /\ \A j \in 1..(i - 1) : task_state[Scans[j]] # "scheduled"
    /\ task_state' = [task_state EXCEPT ![Scans[i]] = "running"]
    /\ UNCHANGED <<apc, task_result, assets, asset_count_boost>>
    /\ UNCHANGED <<sessionVars, retryVars, toolVars, detectVars, pipeVars, loopVars>>

\* A running tool call returns or raises.
TaskFinish(t, answer) ==
    /\ task_state[t] = "running"
    /\ task_state' = [task_state EXCEPT ![t] = "done"]
    /\ task_result' = [task_result EXCEPT ![t] = answer]
    /\ UNCHANGED <<apc, assets, asset_count_boost>>
    /\ UNCHANGED <<sessionVars, retryVars, toolVars, detectVars, pipeVars, loopVars>>

\* gather resumes execute, which processes the three results and returns.
GatherReturn ==
    /\ apc = "gathering"
    /\ gather_resumes(task_state, task_result)
    /\ apc' = "returned"
    /\ LET blockchain_res == task_result["blockchain"]
           email_res == task_result["email"]
           cloud_res == task_result["cloud"]
           crypto == IF blockchain_res.raised THEN 0 ELSE blockchain_res.items
           emails == IF email_res.raised THEN 0 ELSE 1
           cloud == IF cloud_res.raised THEN 0 ELSE cloud_res.items
       IN  assets' = [crypto_wallets |-> crypto,
                      email_accounts |-> emails,
                      cloud_storage |-> cloud,
                      failed |-> {t \in ScanNames : task_result[t].raised},
                      total_assets |-> emails + crypto + cloud + asset_count_boost]
    /\ UNCHANGED <<task_state, task_result, asset_count_boost>>
    /\ UNCHANGED <<sessionVars, retryVars, toolVars, detectVars, pipeVars, loopVars>>

\* The caller has the result or the exception; the agent can be invoked again.
AssetReturn ==
    /\ apc \in {"returned", "raised"}
    /\ apc' = "idle"
    /\ UNCHANGED <<task_state, task_result, assets, asset_count_boost>>
    /\ UNCHANGED <<sessionVars, retryVars, toolVars, detectVars, pipeVars, loopVars>>

FanoutNext ==
    \/ \E input \in AssetInputs, realtime \in BOOLEAN : asset_execute(input, realtime)
    \/ \E i \in 1..Len(Scans) : TaskStart(i)
    \/ \E t \in ScanNames, answer \in ScanAnswers : TaskFinish(t, answer)
    \/ GatherReturn
    \/ AssetReturn

(***************************************************************************)
(* agents_pseudocode.py: GhostOrchestrator.run_pipeline, and the endpoint  *)
(* execute_will of backend/api.py                                          *)
(***************************************************************************)
\* What an agent registered in orchestrator.agents can do when awaited.
DeathStageResults == {"confirmed", "unconfirmed", "raise"}
AssetStageResults == {"inventory", "raise"}

Branches == {"legacy", "contract"}

\* The requests to execute_will served in one behaviour.
MaxWills == 2

DEAD_ADDRESS == "0x000000000000000000000000000000000000dEaD"

NoResponse == [execution_status |-> "none", contract_address |-> "none", transactions |-> 0]

\* GhostOrchestrator.__init__, then run_pipeline up to its first await; the caller may or
\* may not have assigned orchestrator.session.
run_pipeline(with_session) ==
    /\ opc = "idle"
    /\ opc' = "death_detection"
    /\ orch_state' = "MONITORING"
    /\ has_session' = with_session
    /\ branch' = [b \in Branches |-> "none"]
    /\ UNCHANGED <<wpc, will_request, contract_raised, response, metrics_success,
                   legacy_queued, legacy_sent, wills>>
    /\ UNCHANGED <<sessionVars, retryVars, toolVars, detectVars, fanVars, loopVars>>

\* Stage 1 ends.  Unconfirmed: return.  Confirmed: self.state = "EXECUTING", then the
\* message for stage 2 is built from self.session.id and the asset agent is awaited.
DeathStage(r) ==
    /\ opc = "death_detection"
    /\ CASE r = "raise" -> opc' = "raised" /\ UNCHANGED orch_state
         [] r = "unconfirmed" -> opc' = "returned" /\ UNCHANGED orch_state
         [] r = "confirmed" ->
              /\ orch_state' = "EXECUTING"
              /\ opc' = IF has_session THEN "digital_asset" ELSE "raised"
    /\ UNCHANGED <<has_session, branch>>
    /\ UNCHANGED <<wpc, will_request, contract_raised, response, metrics_success,
                   legacy_queued, legacy_sent, wills>>
    /\ UNCHANGED <<sessionVars, retryVars, toolVars, detectVars, fanVars, loopVars>>

\* Stage 2 ends.  With an inventory the two execute(...) coroutines of stages 3 and 4 are
\* created and handed to _run_parallel, whose body is "pass": it awaits neither, so neither
\* branch runs, and run_pipeline goes on to self.state = "COMPLETED".
AssetStage(r) ==
    /\ opc = "digital_asset"
    /\ IF r = "raise"
       THEN /\ opc' = "raised"
            /\ UNCHANGED <<orch_state, branch>>
       ELSE /\ branch' = [b \in Branches |-> "created"]
            /\ orch_state' = "COMPLETED"
            /\ opc' = "returned"
    /\ UNCHANGED has_session
    /\ UNCHANGED <<wpc, will_request, contract_raised, response, metrics_success,
                   legacy_queued, legacy_sent, wills>>
    /\ UNCHANGED <<sessionVars, retryVars, toolVars, detectVars, fanVars, loopVars>>

\* run_pipeline is over; a new orchestrator can be made.
PipelineOver ==
    /\ opc \in {"returned", "raised"}
    /\ opc' = "idle"
    /\ UNCHANGED <<orch_state, has_session, branch>>
    /\ UNCHANGED <<wpc, will_request, contract_raised, response, metrics_success,
                   legacy_queued, legacy_sent, wills>>
    /\ UNCHANGED <<sessionVars, retryVars, toolVars, detectVars, fanVars, loopVars>>

\* POST /api/v1/execute_will, up to "await deps.contract_agent.execute(...)".
execute_will(request) ==
    /\ wpc = "idle"
    /\ wills < MaxWills
    /\ wills' = wills + 1
    /\ wpc' = "contract_agent"
    /\ will_request' = request
    /\ contract_raised' = FALSE
    /\ response' = NoResponse
    /\ metrics_success' = FALSE
    /\ UNCHANGED <<legacy_queued, legacy_sent>>
    /\ UNCHANGED <<opc, orch_state, has_session, branch>>
    /\ UNCHANGED <<sessionVars, retryVars, toolVars, detectVars, fanVars, loopVars>>

\* The contract agent returns or raises, and execute_will runs to its return: on an
\* exception the result is the mock fallback; the metric is recorded with success=True and
\* the legacy messages are queued as a background task either way.
ContractAgentEnds(raised) ==
    /\ wpc = "contract_agent"
    /\ wpc' = "responded"
    /\ contract_raised' = raised
    /\ response' =
          IF raised
          THEN [execution_status |-> "mock_completed",
                contract_address |-> IF will_request.contract_address
                                     THEN "request.contract_address" ELSE DEAD_ADDRESS,
                transactions |-> 1]
          ELSE [execution_status |-> "completed",
                contract_address |-> IF will_request.contract_address
                                     THEN "request.contract_address" ELSE DEAD_ADDRESS,
                transactions |-> 0]
    /\ metrics_success' = TRUE
    /\ legacy_queued' = legacy_queued + 1
    /\ UNCHANGED <<will_request, legacy_sent, wills>>
    /\ UNCHANGED <<opc, orch_state, has_session, branch>>
    /\ UNCHANGED <<sessionVars, retryVars, toolVars, detectVars, fanVars, loopVars>>

\* send_legacy_messages_background runs after the response was sent.
send_legacy_messages_background ==
    /\ legacy_queued > 0
    /\ legacy_queued' = legacy_queued - 1
    /\ legacy_sent' = legacy_sent + 1
    /\ UNCHANGED <<wpc, will_request, contract_raised, response, metrics_success, wills>>
    /\ UNCHANGED <<opc, orch_state, has_session, branch>>
    /\ UNCHANGED <<sessionVars, retryVars, toolVars, detectVars, fanVars, loopVars>>

\* The response has been sent; the endpoint can be called again.
WillResponded ==
    /\ wpc = "responded"
    /\ wpc' = "idle"
    /\ UNCHANGED <<will_request, contract_raised, response, metrics_success,
                   legacy_queued, legacy_sent, wills>>
    /\ UNCHANGED <<opc, orch_state, has_session, branch>>
    /\ UNCHANGED <<sessionVars, retryVars, toolVars, detectVars, fanVars, loopVars>>

PipelineNext ==
    \/ \E with_session \in BOOLEAN : run_pipeline(with_session)
    \/ \E r \in DeathStageResults : DeathStage(r)
    \/ \E r \in AssetStageResults : AssetStage(r)
    \/ PipelineOver
    \/ \E request \in [contract_address : BOOLEAN] : execute_will(request)
    \/ \E raised \in BOOLEAN : ContractAgentEnds(raised)
    \/ send_legacy_messages_background
    \/ WillResponded

(***************************************************************************)
(* agents_realtime.py: RealtimeLoopAgent.execute and stop                  *)
(***************************************************************************)
\* Registry checks started, and hours slept, in one behaviour.
MaxChecks == 3
MaxHours == 50

\* self.interval_hours, and the hours of "await asyncio.sleep(3600)".
interval_hours == 24
ErrorSleepHours == 1

\* The dict handed to execute: whether it has "user_id" and "full_name".
LoopInputs == [user_id : BOOLEAN, full_name : BOOLEAN]

\* What verify_death_certificate can end with.
CheckResults == {"verified", "unverified", "raise"}

\* The top of "while self.is_running:" and the body up to its next await: the loop ends
\* (execute returns None) when is_running is false; otherwise a registry check starts, or
\* input_data["full_name"] raises KeyError inside the try and the hour's sleep starts.
LoopHead(running, name) ==
    IF ~running
    THEN /\ lpc' = "returned"
         /\ UNCHANGED checks
    ELSE IF name
         THEN /\ lpc' = "checking"
              /\ checks' = checks + 1
         ELSE /\ lpc' = "sleep_error"
              /\ UNCHANGED checks

\* execute from its first line to its first await: self.is_running = True, the log line
\* that reads input_data["user_id"], then the loop.
loop_execute(input) ==
    /\ lpc = "not_started"
    /\ checks < MaxChecks
    /\ loop_input' = input
    /\ is_running' = TRUE
    /\ death_detected' = FALSE
    /\ IF ~input.user_id
       THEN /\ lpc' = "raised"
            /\ UNCHANGED checks
       ELSE LoopHead(TRUE, input.full_name)
    /\ UNCHANGED <<stopped, last_check, waited>>
    /\ UNCHANGED <<sessionVars, retryVars, toolVars, detectVars, fanVars, pipeVars>>

\* The registry check ends: verified returns the death_detected result, anything else
\* starts a sleep (24 hours after an unverified check, one hour after an exception).
CheckEnds(r) ==
    /\ lpc = "checking"
    /\ last_check' = r
    /\ CASE r = "verified" -> lpc' = "returned" /\ death_detected' = TRUE
         [] r = "unverified" -> lpc' = "sleep_interval" /\ UNCHANGED death_detected
         [] r = "raise" -> lpc' = "sleep_error" /\ UNCHANGED death_detected
    /\ UNCHANGED <<loop_input, is_running, stopped, checks, waited>>
    /\ UNCHANGED <<sessionVars, retryVars, toolVars, detectVars, fanVars, pipeVars>>

\* The sleep ends and the loop condition is evaluated again.
SleepEnds ==
    /\ lpc \in {"sleep_interval", "sleep_error"}
    /\ is_running => checks < MaxChecks
    /\ waited' = waited + (IF lpc = "sleep_interval" THEN interval_hours ELSE ErrorSleepHours)
    /\ waited' <= MaxHours
    /\ LoopHead(is_running, loop_input.full_name)
    /\ UNCHANGED <<loop_input, is_running, stopped, last_check, death_detected>>
    /\ UNCHANGED <<sessionVars, retryVars, toolVars, detectVars, fanVars, pipeVars>>

\* stop(): callable whenever execute is not running on the event loop, that is before it
\* starts, while it is suspended at an await, and after it has ended.
stop ==
    /\ is_running' = FALSE
    /\ stopped' = TRUE
    /\ UNCHANGED <<lpc, loop_input, checks, last_check, death_detected, waited>>
    /\ UNCHANGED <<sessionVars, retryVars, toolVars, detectVars, fanVars, pipeVars>>

LoopNext ==
    \/ \E input \in LoopInputs : loop_execute(input)
    \/ \E r \in CheckResults : CheckEnds(r)
    \/ SleepEnds
    \/ stop

\* After construction: InMemorySessionService.__init__ (no persistence file yet),
\* RateLimiter.__init__, and no with_retry call under way.
Init ==
    /\ sessions = [sid \in {} |-> 0]
    /\ session_data = [sid \in {} |-> 0]
    /\ state_history = [sid \in {} |-> 0]
    /\ aliased = [sid \in {} |-> FALSE]
    /\ taken = [sid \in {} |-> None]
    /\ ever_cp = [sid \in {} |-> FALSE]
    /\ clock = 0
    /\ persistence_file = "absent"
    /\ last = Call("init", <<"", 0>>, "", "ok", None)
    /\ rpc = "idle"
    /\ attempt = 0
    /\ now = 0
    /\ start_time = 0
    /\ wake = 0
    /\ requests = <<>>
    /\ results = <<>>
    /\ calls = 0
    /\ outcome = "none"
    /\ sleeps = <<>>
    /\ use_jitter = FALSE
    /\ func_start = 0
    /\ admitted = <<>>
    /\ unrecorded = <<>>
    /\ loaded = FALSE
    /\ REALTIME_MODE = FALSE
    /\ USE_MOCK_DATA_FLAG = FALSE
    /\ FORCE_REALTIME_OVERRIDE = FALSE
    /\ USE_REALTIME = FALSE
    /\ key_statuses = {}
    /\ current_mode = "MOCK"
    /\ tpc = "idle"
    /\ tool = NoCall
    /\ realtime_seen = FALSE
    /\ mode = "MOCK"
    /\ live_calls = 0
    /\ live_outcome = "none"
    /\ tool_result = NoResult
    /\ dpc = "idle"
    /\ input_data = [full_name |-> FALSE, manual_trigger |-> FALSE]
    /\ requested = FALSE
    /\ confidence_threshold = MOCK_CONFIDENCE_THRESHOLD
    /\ evidence = <<>>
    /\ is_confirmed = FALSE
    /\ apc = "idle"
    /\ task_state = [t \in ScanNames |-> "none"]
    /\ task_result = [t \in ScanNames |-> NoAnswer]
    /\ assets = NoAssets
    /\ asset_count_boost = MOCK_ASSET_COUNT_BOOST
    /\ opc = "idle"
    /\ orch_state = "MONITORING"
    /\ has_session = FALSE
    /\ branch = [b \in Branches |-> "none"]
    /\ wpc = "idle"
    /\ will_request = [contract_address |-> FALSE]
    /\ contract_raised = FALSE
    /\ response = NoResponse
    /\ metrics_success = FALSE
    /\ legacy_queued = 0
    /\ legacy_sent = 0
    /\ wills = 0
    /\ lpc = "not_started"
    /\ loop_input = [user_id |-> FALSE, full_name |-> FALSE]
    /\ is_running = FALSE
    /\ checks = 0
    /\ last_check = "none"
    /\ death_detected = FALSE
    /\ stopped = FALSE
    /\ waited = 0

SessionSpec == Init /\ [][SessionNext]_vars

RetrySpec == Init /\ [][RetryNext]_vars

ToolSpec == Init /\ [][ToolNext]_vars

DetectSpec == Init /\ [][DetectNext]_vars

FanoutSpec == Init /\ [][FanoutNext]_vars

PipelineSpec == Init /\ [][PipelineNext]_vars

LoopSpec == Init /\ [][LoopNext]_vars

(***************************************************************************)
(* Claims about InMemorySessionService (checked under SessionSpec)         *)
(***************************************************************************)
Terminal == {"COMPLETED", "FAILED"}

\* the step is a call of one of the operations C1 lists, on an existing session
StateChanged(sid) ==
    /\ sid \in DOMAIN sessions
    /\ last'.op # "create_session"
    /\ sessions'[sid].state # sessions[sid].state

AskedForFailed ==
    \/ last.op = "update_state" /\ last.arg = "FAILED"
    \/ last.op = "close_session" /\ last.arg = "False"

\* C2: from every non-terminal state update_state(s, FAILED) and
\* close_session(s, success=False) succeed and leave the session in FAILED
\* (so such a call is rejected only on a session that is already terminal).
C2_AnyStateToFailed ==
    (AskedForFailed /\ last.sid \in DOMAIN sessions) =>
        \/ last.result = "ok" /\ sessions[last.sid].state = "FAILED"
        \/ last.result # "ok" /\ sessions[last.sid].state \in Terminal

\* the step is the first rollback_to_checkpoint after a create_checkpoint that
\* only set_data calls followed
FirstRollback(sid) ==
    /\ sid \in DOMAIN sessions
    /\ taken[sid] # None
    /\ ~taken[sid][1].rolled
    /\ taken'[sid] # None
    /\ taken'[sid][1].rolled

\* C3: create_checkpoint, then any number of set_data calls, then
\* rollback_to_checkpoint: the rollback completes without error and the session's
\* state, current_agent and data store are what they were at the checkpoint.
C3_RollbackRestores ==
    [][\A sid \in AllIds :
          FirstRollback(sid) =>
             /\ last'.result = "ok"
             /\ sessions'[sid].state = taken[sid][1].state
             /\ sessions'[sid].current_agent = taken[sid][1].agent
             /\ session_data'[sid] = taken[sid][1].data]_vars

\* C4: rollback_to_checkpoint fails with the no-checkpoint error only when
\* create_checkpoint was never called for the session (a checkpoint survives
\* later successful transitions).
C4_NoCheckpointOnlyIfNeverTaken ==
    (last.op = "rollback_to_checkpoint" /\ last.result = NoCheckpoint) =>
        \/ last.sid \notin DOMAIN sessions
        \/ ~ever_cp[last.sid]

\* C5: after create_checkpoint no sequence of set_data and
\* rollback_to_checkpoint calls changes the key/value contents recorded in the
\* checkpoint.
C5_SnapshotImmutable ==
    \A sid \in DOMAIN sessions :
        (taken[sid] # None /\ sessions[sid].checkpoint # None) =>
            sessions[sid].checkpoint[1].data_snapshot = taken[sid][1].data

\* the step is a call of op on an id that has no session
CallOnMissing(op, sid) ==
    /\ sid \notin DOMAIN session_data
    /\ last'.op = op
    /\ last'.sid = sid

NoEntryCreated(sid) ==
    /\ sid \notin DOMAIN sessions'
    /\ sid \notin DOMAIN session_data'
    /\ sid \notin DOMAIN state_history'

\* C6 as claimed: set_data and get_data both fail with the session-not-found
\* error on an id that does not exist, and neither creates an entry for it.
C6_BothFailOnMissing ==
    [][\A sid \in AllIds :
          (CallOnMissing("set_data", sid) \/ CallOnMissing("get_data", sid)) =>
             /\ last'.result = SessionNotFound
             /\ NoEntryCreated(sid)]_vars

\* C6 amended: on an id that does not exist set_data fails with the
\* session-not-found error, get_data raises nothing and returns None, and
\* neither creates an entry for it.
C6_SetFailsGetReturnsNone ==
    [][\A sid \in AllIds :
          /\ CallOnMissing("set_data", sid) =>
                last'.result = SessionNotFound /\ NoEntryCreated(sid)
          /\ CallOnMissing("get_data", sid) =>
                last'.result = "ok" /\ last'.ret = None /\ NoEntryCreated(sid)]_vars

\* C6 witness: while a session exists, set_data was called with the id of no
\* session and was refused.
C6_Witness ==
    /\ last.op = "set_data"
    /\ last.sid \notin DOMAIN sessions
    /\ last.result = SessionNotFound
    /\ DOMAIN sessions # {}

(***************************************************************************)
(* Claims about with_retry (checked under RetrySpec)                       *)
(***************************************************************************)
\* the failures the specification calls retryable
SpecRetryable == {"NetworkError", "TimeoutError", "RateLimitError", "HTTPError(500)"}

CallEnded == rpc \in {"returned", "raised"}

\* every failure the wrapped function has shown so far is a retryable one
OnlyRetryableFailures ==
    \A i \in 1..Len(results) : results[i] = "ok" \/ results[i] \in SpecRetryable

\* a call that returned: the first success was execution number `calls`, and its
\* result went to the caller
ReturnedFirstSuccess ==
    /\ calls = Len(results)
    /\ results[calls] = "ok"
    /\ \A i \in 1..(calls - 1) : results[i] # "ok"
    /\ outcome = "ok"

\* a call that used up its attempts: max_retries + 1 executions, all failed, the
\* last error propagated
RaisedAfterAllAttempts ==
    /\ calls = MaxRetries + 1
    /\ calls = Len(results)
    /\ \A i \in 1..calls : results[i] # "ok"
    /\ outcome = results[calls]

RaisedByTimeoutCheck ==
    /\ outcome = WrapperTimeout
    /\ calls = Len(results)
    /\ calls <= MaxRetries
    /\ \A i \in 1..calls : results[i] # "ok"

C8_InvalidKeyNoRetry ==
    \A i \in 1..Len(results) :
        results[i] = "InvalidKeyError" =>
            /\ i = Len(results)
            /\ calls = i
            /\ rpc = "raised"
            /\ outcome = "InvalidKeyError"
            /\ Len(sleeps) = i - 1

\* C8 witness: the second execution raised InvalidKeyError with retries left.
C8_Witness ==
    /\ Len(results) = 2
    /\ results[2] = "InvalidKeyError"
    /\ attempt < MaxRetries
    /\ rpc = "raised"

\* C9: a 4xx client error other than 429 is propagated at once with no further
\* attempt; only Network, Timeout, RateLimited and ServerError failures are
\* followed by another attempt.
C9_ClientErrorNoRetry ==
    \A i \in 1..Len(results) :
        (results[i] # "ok" /\ results[i] \notin SpecRetryable) =>
            /\ i = Len(results)
            /\ rpc = "raised"
            /\ outcome = results[i]

\* C10: at the start of an attempt with the timeout exceeded the call fails with
\* TimeoutError and the wrapped function is not executed, on that attempt or
\* later (a call that has ended stays ended).
C10_TimeoutStopsAttempts ==
    [][/\ (rpc = "loop" /\ now - start_time > Timeout) =>
             (rpc' = "raised" /\ outcome' = WrapperTimeout /\ calls' = calls)
       /\ rpc = "raised" => (rpc' = "raised" /\ calls' = calls)]_vars

\* C10 witness: the call ended with the wrapper's TimeoutError at the start of a
\* later attempt, after one execution that failed.
C10_Witness ==
    /\ rpc = "raised"
    /\ outcome = WrapperTimeout
    /\ attempt = 1
    /\ calls = 1
    /\ now - start_time > Timeout

(***************************************************************************)
(* Claims about the timeout, the rate limiter and the backoff delays       *)
(* (checked under RetrySpec)                                               *)
(***************************************************************************)

\* C11: an execution of the wrapped function that was started before the
\* timeout deadline, was still in flight when the deadline passed and then
\* completed successfully does not have its result handed to the caller: the
\* call ends with the wrapper's TimeoutError.
C11_LateResultDiscarded ==
    (/\ CallEnded
     /\ results # <<>>
     /\ results[Len(results)] = "ok"
     /\ func_start - start_time <= Timeout
     /\ now - start_time > Timeout) =>
        (rpc = "raised" /\ outcome = WrapperTimeout)

\* C12: every execution of the wrapped function was started by an is_allowed
\* call that returned True and recorded it, so the executions of the tool
\* started within the trailing window (those recorded and those not) never
\* exceed max_requests, other callers of the limiter included.
C12_EveryExecutionAdmitted ==
    /\ unrecorded = <<>>
    /\ Len(Unexpired(admitted, now)) + Len(Unexpired(unrecorded, now)) <= MaxRequests

\* the number of timestamps of reqs inside the trailing window at t
InWindow(reqs, t) == Cardinality({i \in 1..Len(reqs) : t - reqs[i] < WindowSeconds})

\* the step is the wrapper's call of is_allowed (lines 201-206)
WrapperAsks == rpc = "loop" /\ rpc' \in {"in_func", "rl_sleep"}

\* the step is another caller's call of is_allowed
OtherAsks == rpc' = rpc /\ now' = now /\ requests' # requests

\* C13: is_allowed returns True exactly when fewer than max_requests timestamps
\* lie inside the trailing window, it records the current time exactly when it
\* returns True (and only drops expired timestamps otherwise), and the window
\* never holds more than max_requests unexpired timestamps.
C13_AdmitsBelowCapacity ==
    /\ [](InWindow(requests, now) <= MaxRequests)
    /\ [][/\ WrapperAsks =>
                /\ (rpc' = "in_func") <=> (InWindow(requests, now) < MaxRequests)
                /\ requests' = IF rpc' = "in_func"
                               THEN Append(Unexpired(requests, now), now)
                               ELSE Unexpired(requests, now)
          /\ OtherAsks =>
                requests' = IF InWindow(requests, now) < MaxRequests
                            THEN Append(Unexpired(requests, now), now)
                            ELSE Unexpired(requests, now)]_vars

\* C13 witness: max_requests immediate calls were admitted and the wrapper's
\* call at the same instant was denied.
C13_Witness ==
    /\ rpc = "rl_sleep"
    /\ now = start_time
    /\ Len(requests) = MaxRequests
    /\ \A i \in 1..Len(requests) : requests[i] = now

\* C14: with several callers of is_allowed for the same tool in flight at once
\* (a coroutine runs lines 92-107 without suspension: there is no await in
\* them), no admitted timestamp is lost, the count of admitted requests never
\* decreases except by expiry, and no more than max_requests are admitted
\* within one window.
C14_NoLostAdmission ==
    /\ [](Unexpired(requests, now) = Unexpired(admitted, now))
    /\ [](Len(Unexpired(admitted, now)) <= MaxRequests)
    /\ [][InWindow(requests', now') >= InWindow(requests, now')]_vars

\* C14 witness: while the wrapper's execution of the function is in flight
\* (admitted first), another caller was admitted in the same window and a
\* third asked and was refused: all admissions are in the window.
C14_Witness ==
    /\ rpc = "in_func"
    /\ Len(requests) = MaxRequests
    /\ requests[1] = func_start
    /\ requests[MaxRequests] > func_start
    /\ now - func_start < WindowSeconds
    /\ requests = admitted

\* C15: with use_jitter off the delay slept after failed attempt a is exactly
\* base_delay * 2^a (the sleeps of one call are base_delay, 2*base_delay, ...),
\* a sleep follows only an attempt a < max_retries, never the last one.
C15_NoJitterDelays ==
    ~use_jitter =>
        /\ \A i \in 1..Len(sleeps) : sleeps[i] = BaseDelay * (2 ^ (i - 1))
        /\ Len(sleeps) <= MaxRetries
        /\ Len(sleeps) = IF rpc = "backoff" THEN attempt + 1 ELSE attempt
        /\ rpc = "backoff" => attempt < MaxRetries

\* C15 witness: every attempt failed with a retryable error, jitter off: the
\* call slept max_retries times and raised after the last attempt.
C15_Witness ==
    /\ ~use_jitter
    /\ rpc = "raised"
    /\ Len(results) = MaxRetries + 1
    /\ Len(sleeps) = MaxRetries
    /\ outcome = "NetworkError"

(***************************************************************************)
(* Claims about the runtime mode and the tools (checked under ToolSpec)    *)
(***************************************************************************)

\* the mode the resolution rule of C16 gives
ClaimedLive ==
    \/ FORCE_REALTIME_OVERRIDE
    \/ /\ REALTIME_MODE
       /\ ~USE_MOCK_DATA_FLAG
       /\ CRITICAL_API_KEYS \subseteq key_statuses

\* the body of a tool has run in the call under way
ToolRan ==
    /\ tpc # "idle"
    /\ tool.name \in McpTools \cup OpenapiTools
    /\ tool_result.kind # "raised"

\* C16: the mode a tool works in when it executes is Live exactly when the
\* force-live override is set, or prefer-live is set, force-mock is not and
\* every critical credential is present; otherwise it is Synthetic.
C16_EffectiveMode == ToolRan => (realtime_seen <=> ClaimedLive)

C18_ModeTagTellsOrigin ==
    (tpc = "done" /\ ToolRan) =>
        /\ tool_result.mode = "REALTIME" => tool_result.data = "live"
        /\ (live_calls > 0 /\ tool_result.data = "synthetic") =>
              tool_result.mode = "MOCK_FALLBACK"
        /\ live_calls = 0 => tool_result.mode = "MOCK"

\* C19: execute_tool raises exactly for the names that are not registered: for
\* every registered tool it returns a result, whether the live handler
\* succeeded, failed or was skipped.
C19_RegisteredNeverRaises ==
    (tpc = "done" /\ tool.via = "registry") =>
        (tool_result.kind = "raised" <=> tool.name \notin Registered)

\* the live failures the retry policy retries
RetryableLiveFailures == {"NetworkError", "TimeoutError", "http429", "http500"}

\* C20: a tool whose live handler failed with a retryable error falls back to
\* the synthetic handler only after it re-attempted the live handler (the
\* retry policy allows max_retries further attempts).
C20_FallbackAfterRetries ==
    (/\ tpc = "done"
     /\ ToolRan
     /\ live_outcome \in RetryableLiveFailures
     /\ tool_result.data = "synthetic") =>
        (live_calls > 1 /\ live_calls <= MaxRetries + 1)

(***************************************************************************)
(* Further claims about InMemorySessionService (checked under SessionSpec) *)
(***************************************************************************)

\* the last call was a successful create_session, update_state or set_data
Persisted ==
    /\ last.op \in {"create_session", "update_state", "set_data"}
    /\ last.result = "ok"

\* C24: after every successful create_session, update_state or set_data a new
\* InMemorySessionService constructed on the persistence file sees every
\* session, with the same state, current_agent, data store and state history.
C24_PersistenceRoundTrip ==
    Persisted =>
        LET fresh == load_from_disk(persistence_file) IN
        /\ DOMAIN fresh.sessions = DOMAIN sessions
        /\ \A sid \in DOMAIN sessions :
              /\ fresh.sessions[sid].state = sessions[sid].state
              /\ fresh.sessions[sid].current_agent = sessions[sid].current_agent
              /\ fresh.session_data[sid] = session_data[sid]
              /\ fresh.state_history[sid] = state_history[sid]

\* C25: create_session returns an id that was not in use: the call adds one
\* session in CREATED with an empty data store and a one-entry history and
\* leaves the state, data and history of every existing session unchanged,
\* also for the same user at the same clock reading.
C25_FreshSessionId ==
    [][last'.op = "create_session" =>
          /\ last'.sid \notin DOMAIN sessions
          /\ sessions'[last'.sid].state = "CREATED"
          /\ session_data'[last'.sid] = EmptyDict
          /\ Len(state_history'[last'.sid]) = 1
          /\ \A sid \in DOMAIN sessions :
                /\ sessions'[sid] = sessions[sid]
                /\ session_data'[sid] = session_data[sid]
                /\ state_history'[sid] = state_history[sid]]_vars

\* C27: resume_session on a session paused from MONITORING moves it out of
\* PAUSED, back to MONITORING, with or without a checkpoint created before
\* the pause.
C27_ResumeLeavesPaused ==
    [][(/\ last'.op = "resume_session"
        /\ last'.sid \in DOMAIN sessions
        /\ sessions[last'.sid].state = "PAUSED") =>
           sessions'[last'.sid].state = "MONITORING"]_vars

\* the history a session has after going through the given states
Hist(states) == [i \in 1..Len(states) |-> [state |-> value(states[i])]]

\* the step is the call op(arg) on a session whose history so far is Hist(states)
ExampleStep(sid, states, op, arg) ==
    /\ sid \in DOMAIN sessions
    /\ state_history[sid] = Hist(states)
    /\ last'.op = op
    /\ last'.arg = arg
    /\ last'.sid = sid

\* the call of the step was accepted and left the session in state s
Accepted(sid, s) == last'.result = "ok" /\ sessions'[sid].state = s

\* C28: the lifecycle of example_session_usage (create_session, MONITORING,
\* create_checkpoint, DEATH_DETECTED, ASSET_SCANNING, pause_session,
\* resume_session, close_session(True)) is accepted step by step and ends in
\* COMPLETED.
C28_ExampleLifecycleAccepted ==
    [][\A sid \in AllIds :
          /\ ExampleStep(sid, <<"CREATED">>, "update_state", "MONITORING")
                => Accepted(sid, "MONITORING")
          /\ ExampleStep(sid, <<"CREATED", "MONITORING">>, "create_checkpoint", "")
                => Accepted(sid, "MONITORING")
          /\ ExampleStep(sid, <<"CREATED", "MONITORING">>, "update_state", "DEATH_DETECTED")
                => Accepted(sid, "DEATH_DETECTED")
          /\ ExampleStep(sid, <<"CREATED", "MONITORING", "DEATH_DETECTED">>,
                         "update_state", "ASSET_SCANNING")
                => Accepted(sid, "ASSET_SCANNING")
          /\ ExampleStep(sid, <<"CREATED", "MONITORING", "DEATH_DETECTED", "ASSET_SCANNING">>,
                         "pause_session", "")
                => Accepted(sid, "PAUSED")
          /\ ExampleStep(sid, <<"CREATED", "MONITORING", "DEATH_DETECTED", "ASSET_SCANNING",
                                "PAUSED">>, "resume_session", "")
                => (last'.result = "ok" /\ sessions'[sid].state # "PAUSED")
          /\ (/\ sid \in DOMAIN sessions
              /\ Len(state_history[sid]) >= 5
              /\ SubSeq(state_history[sid], 1, 5) =
                    Hist(<<"CREATED", "MONITORING", "DEATH_DETECTED", "ASSET_SCANNING",
                           "PAUSED">>)
              /\ sessions[sid].state # "PAUSED"
              /\ last'.op = "close_session" /\ last'.arg = "True" /\ last'.sid = sid)
                => Accepted(sid, "COMPLETED")]_vars

\* h is an initial part of g
IsPrefix(h, g) == Len(h) <= Len(g) /\ SubSeq(g, 1, Len(h)) = h

\* C29: the state history is append-only and tracks the session: a successful
\* update_state appends exactly one entry, a rejected one appends none and
\* leaves state, current_agent and checkpoint unchanged, no operation removes
\* or rewrites an earlier entry, and the last entry always names the current
\* state.
C29_HistoryAppendOnly ==
    /\ [](\A sid \in DOMAIN sessions :
             state_history[sid][Len(state_history[sid])].state = value(sessions[sid].state))
    /\ [][\A sid \in DOMAIN sessions :
             /\ sid \in DOMAIN state_history'
             /\ IsPrefix(state_history[sid], state_history'[sid])
             /\ (last'.op = "update_state" /\ last'.sid = sid /\ last'.result = "ok") =>
                   Len(state_history'[sid]) = Len(state_history[sid]) + 1
             /\ (last'.op = "update_state" /\ last'.sid = sid /\ last'.result # "ok") =>
                   /\ state_history'[sid] = state_history[sid]
                   /\ sessions'[sid] = sessions[sid]]_vars

(***************************************************************************)
(* A further claim about with_retry (checked under RetrySpec)              *)
(***************************************************************************)

\* the categories of classify_error that the retry policy retries
RetryableCategories == {"NetworkError", "TimeoutError", "RateLimitError", "HTTPError(500)"}

\* C26: with_retry decides from the classification: a failure that
\* classify_error maps to InvalidKeyError (an InvalidKeyError, or another
\* exception whose message carries 401 or 403) is propagated after that one
\* attempt, and a failure of a retryable category ends the call only when no
\* attempt remains.
C26_RetryByClassification ==
    \A i \in 1..Len(results) :
        /\ (results[i] # "ok" /\ classify_error(results[i]) = "InvalidKeyError") =>
              /\ i = Len(results)
              /\ rpc = "raised"
              /\ outcome = results[i]
        /\ (/\ results[i] # "ok"
            /\ classify_error(results[i]) \in RetryableCategories
            /\ i = Len(results)
            /\ rpc = "raised"
            /\ outcome = results[i]) => i = MaxRetries + 1

(***************************************************************************)
(* Claims about the agents of agents_realtime.py                           *)
(***************************************************************************)

\* C21: when death detection has returned, is_confirmed is true exactly when the caller set
\* the manual override or the mean confidence of the evidence reaches the threshold; with
\* the override set it is true for every evidence list, the empty one included.
C21_ConfirmedIffMeanOrOverride ==
    dpc = "done" =>
        (is_confirmed <=>
            (requested \/
             (evidence # <<>> /\ Sum(evidence) >= confidence_threshold * Len(evidence))))

\* C23: the asset-scan fan-out issues all three tool calls before execute waits on any of
\* them (no call is issued while another is still missing), execute returns only after all
\* three have finished, and each call's outcome is recorded on its own: a call that raised
\* is logged as failed and contributes nothing, while every call that returned contributes
\* its result whatever the others did.
C23_FanOutJoinsAll ==
    /\ \A t, u \in ScanNames : task_state[t] = "none" => task_state[u] = "none"
    /\ apc = "gathering" => \A t \in ScanNames : task_state[t] # "none"
    /\ apc = "returned" =>
          /\ \A t \in ScanNames : task_state[t] = "done"
          /\ assets.failed = {t \in ScanNames : task_result[t].raised}
          /\ assets.crypto_wallets =
                IF task_result["blockchain"].raised THEN 0 ELSE task_result["blockchain"].items
          /\ assets.email_accounts = IF task_result["email"].raised THEN 0 ELSE 1
          /\ assets.cloud_storage =
                IF task_result["cloud"].raised THEN 0 ELSE task_result["cloud"].items

\* C23 witness: execute has returned after the blockchain scan raised; the email and the
\* cloud scans, which finished after it, are both in the result.
C23_Witness ==
    /\ apc = "returned"
    /\ task_result["blockchain"].raised
    /\ assets.failed = {"blockchain"}
    /\ assets.email_accounts = 1
    /\ assets.cloud_storage = MaxItems

\* C22: a run ends COMPLETED only if the legacy branch and the contract branch both
\* finished successfully, and a run whose contract execution failed is never reported as
\* completed.
C22_CompletedOnlyIfBothBranchesSucceeded ==
    /\ orch_state = "COMPLETED" => \A b \in Branches : branch[b] = "succeeded"
    /\ (wpc = "responded" /\ contract_raised) =>
          /\ response.execution_status \notin {"completed", "mock_completed"}
          /\ ~metrics_success

\* C30: the loop agent returns the death_detected result only after a registry check came
\* back verified, goes on to a further check after an unverified or failed one while it
\* has not been stopped, and once stop() has been called no new registry check starts,
\* whenever the stop was issued relative to the start of execute.
C30_PollsUntilConfirmedOrStopped ==
    /\ [](death_detected => last_check = "verified")
    /\ [][(lpc \in {"sleep_interval", "sleep_error"} /\ lpc' # lpc /\ ~stopped
              /\ loop_input.full_name)
            => (lpc' = "checking" /\ checks' = checks + 1)]_vars
    /\ [][stopped => checks' = checks]_vars

====
